---- MODULE Spec2Model ----
(***************************************************************************)
(* Token/desk queue dashboard (rythmn1111/token-system).                   *)
(*                                                                         *)
(* The shared store (tables tokens, desks, token_counter, desk_counter,    *)
(* system_settings) is read and written by browser pages.  Every handler   *)
(* is a sequence of awaited store round trips; one action of this module   *)
(* is one round trip (or the synchronous prefix of a handler), so pages    *)
(* interleave exactly where the code awaits.                               *)
(*                                                                         *)
(* Pages modelled:                                                         *)
(*   admin page    src/src/pages/index.tsx      (createToken, addDesk, ...) *)
(*   display page  src/unnamed/part_002         (fetchData,                *)
(*                                     performAutoAssignment, completeToken) *)
(*   desk page     src/unnamed/part_000         (fetchDeskData,            *)
(*                                               completeToken)            *)
(*   fees page     src/src/pages/fees/index.tsx (markAsPaid, deleting)     *)
(*                 src/unnamed/part_001         (markAsPaid, retaining)    *)
(*   API handler   src/src/pages/api/auto-assign.ts (tables computers,     *)
(*                                                   token)                *)
(*   CreatePCButton src/src/pages/index.tsx     (handleCreate)             *)
(***************************************************************************)
EXTENDS Integers, Sequences, FiniteSets, TLC

\* ---------------------------------------------------------------- bounds
MaxTokens == 2        \* token rows the store ever holds (ids 1..MaxTokens)
MaxDesks == 2         \* desk rows the store ever holds (ids 1..MaxDesks)
NAdmin == 2           \* open admin pages
NDisplay == 2         \* open display pages
NDeskPages == 2       \* open desk pages
NFees == 2            \* open fees pages
MaxTime == 2          \* readings of the wall clock (new Date()) are 1..MaxTime
MaxServed == 2        \* cap on total_tokens_served
MaxNumber == 3        \* cap on the two counters
MaxComputers == 2     \* rows the computers table ever holds
MaxPersons == 2       \* rows the token table holds
NRequests == 2        \* requests the /api/auto-assign handler receives

TokenIds == 1..MaxTokens
DeskIds == 1..MaxDesks
AdminPages == 1..NAdmin
DisplayPages == 1..NDisplay
DeskPages == 1..NDeskPages
FeesPages == 1..NFees
\* pages/fees/index.tsx exists in two versions, one of which is deployed:
\* "delete" (src/src/pages/fees/index.tsx) removes the paid token, "retain"
\* (src/unnamed/part_001) keeps it with status paid
FeesVersions == {"delete", "retain"}

NULL == 0             \* SQL null for an id or a timestamp

ComputerIds == 1..MaxComputers
PersonIds == 1..MaxPersons      \* ids of the rows of table token
Requests == 1..NRequests
Methods == {"POST", "GET"}      \* req.method

\* inputs typed into the admin dialogs
Names == {"", " ", "a"}

VARIABLES
  tokens,              \* table tokens: id -> row
  desks,               \* table desks: id -> row
  token_counter,       \* token_counter.last_token_number (row id 1)
  desk_counter,        \* desk_counter.last_desk_number (row id 1)
  auto_assign_enabled, \* system_settings.auto_assign_enabled (row id 1)
  now,                 \* the wall clock read by new Date()
  admin,               \* admin page -> handler state
  display,             \* display page -> view and handler state
  deskPage,            \* desk page -> route parameter, view and handler state
  fees,                \* fees page -> view and handler state
  computers,           \* table computers: id -> row
  token,               \* table token: id -> row
  request              \* /api/auto-assign request -> handler state, response

vars == <<tokens, desks, token_counter, desk_counter, auto_assign_enabled, now,
          admin, display, deskPage, fees, computers, token, request>>

\* the tables and requests of /api/auto-assign
apiVars == <<computers, token, request>>

store == <<tokens, desks, token_counter, desk_counter, auto_assign_enabled>>

\* ------------------------------------------------------------ store rows
\* status "none": the id has not been inserted yet; "deleted": the row was
\* removed (ids are a serial column and are never reused)
NoToken == [status |-> "none", token_number |-> 0, name |-> "",
            assigned_desk_id |-> NULL, assigned_at |-> NULL, updated_at |-> NULL]

NoDesk == [status |-> "none", desk_number |-> 0, assigned_token_id |-> NULL,
           assigned_at |-> NULL, total_tokens_served |-> 0, is_active |-> FALSE]

TokenExists(t) == tokens[t].status \notin {"none", "deleted"}

DeskExists(d) == desks[d].status \notin {"none", "deleted"}

\* the id the serial column gives the next inserted row; 0 when the model's
\* id space is used up
NextTokenId ==
  IF \E t \in TokenIds : tokens[t].status = "none"
  THEN CHOOSE t \in TokenIds : /\ tokens[t].status = "none"
                               /\ \A u \in TokenIds : u < t => tokens[u].status # "none"
  ELSE 0

NextDeskId ==
  IF \E d \in DeskIds : desks[d].status = "none"
  THEN CHOOSE d \in DeskIds : /\ desks[d].status = "none"
                              /\ \A e \in DeskIds : e < d => desks[e].status # "none"
  ELSE 0

\* .order(key, {ascending: true}): the ids of S as a sequence by ascending
\* key; rows with equal keys come in id order
RECURSIVE OrderBy(_, _)
OrderBy(S, key) ==
  IF S = {} THEN <<>>
  ELSE LET m == CHOOSE x \in S : \A y \in S :
                   key[x] < key[y] \/ (key[x] = key[y] /\ x <= y)
       IN <<m>> \o OrderBy(S \ {m}, key)

\* String.prototype.trim on the inputs of Names
Trim(s) == IF s = " " THEN "" ELSE s

\* ------------------------------------------------------------------ Init
\* A token row as createToken inserts it (status, assigned_desk_id take the
\* table defaults: waiting, null)
NewToken(n, nm) == [status |-> "waiting", token_number |-> n, name |-> nm,
                    assigned_desk_id |-> NULL, assigned_at |-> NULL,
                    updated_at |-> NULL]

\* A desk row as addDesk inserts it (status takes the table default: free)
NewDesk(n) == [status |-> "free", desk_number |-> n, assigned_token_id |-> NULL,
               assigned_at |-> NULL, total_tokens_served |-> 0, is_active |-> TRUE]

\* The desk rows the store may hold when the pages open: desks added by
\* addDesk, some of them put in maintenance or deactivated in the store
\* (the pages read status 'maintenance' and is_active but never write them)
InitDeskRows(n) == {NewDesk(n),
                    [NewDesk(n) EXCEPT !.status = "maintenance"],
                    [NewDesk(n) EXCEPT !.is_active = FALSE]}

\* useState defaults of the admin page: no handler running, alert null
IdleAdmin == [pc |-> "idle", next |-> 0, name |-> "", alert |-> "none"]

\* a handler of the admin page returns having called setAlert(a)
Finished(a) == [pc |-> "idle", next |-> 0, name |-> "", alert |-> a]

\* useState defaults of DisplayPage: desks [], waitingTokens [],
\* systemSettings null (read as "not enabled")
\* poll2: a second fetchData call of the page, in flight beside the first.
\* The order of issue is kept on record (read by no handler): poll2.later,
\* issued while the first call's fetch was in flight; overtaken, a call
\* issued later has already installed its view; vstale, the view was
\* installed by an overtaken call; readIdle, poll2 read its desks while no
\* other call was in flight; older, a call issued after that read has
\* installed its view; vold, the view was installed by such a call; onOlder,
\* the pass under way began on such a view
IdlePoll == [pc |-> "idle", got |-> <<>>, later |-> FALSE, overtaken |-> FALSE,
             readIdle |-> FALSE, older |-> FALSE]

IdleDisplay == [op |-> "none", pc |-> "idle", tok |-> NULL, desk |-> NULL,
                got |-> <<>>, one |-> FALSE,
                vdesks |-> <<>>, vwaiting |-> <<>>, venabled |-> FALSE,
                poll2 |-> IdlePoll, overtaken |-> FALSE, vstale |-> FALSE,
                vold |-> FALSE, onOlder |-> FALSE]

\* useState default of DeskPage: desk null; deskNumber 0: route not resolved
IdleDeskPage == [deskNumber |-> 0, pc |-> "idle", got |-> NULL, served |-> 0,
                 vdesk |-> NULL, vtoken |-> NULL]

\* useState default of FeesPage: completedTokens []
IdleFees(v) == [version |-> v, pc |-> "idle", vcompleted |-> {}]

\* a computers row not inserted yet; a token row not inserted
NoComputer == [exists |-> FALSE, status |-> FALSE, person_assigned |-> NULL]

NoPerson == [exists |-> FALSE, status |-> FALSE]

\* a request not received yet: no response (status 0), nothing written
NoRequest == [pc |-> "new", method |-> "", status |-> 0, step |-> "",
              computer |-> NULL, token |-> NULL, wrote |-> {}]

\* The store as sequential createToken / addDesk calls leave it: k tokens
\* numbered 1..k, all waiting, m desks numbered 1..m, both counters at the
\* last number given out.
PagesInit ==
  /\ \E k \in 0..MaxTokens :
       /\ tokens = [t \in TokenIds |-> IF t <= k THEN NewToken(t, "a") ELSE NoToken]
       /\ token_counter = k
  /\ \E m \in 0..MaxDesks :
       /\ desks \in {f \in [DeskIds -> UNION {InitDeskRows(n) : n \in DeskIds}
                                        \cup {NoDesk}] :
                       \A d \in DeskIds :
                         IF d <= m THEN f[d] \in InitDeskRows(d) ELSE f[d] = NoDesk}
       /\ desk_counter = m
  /\ auto_assign_enabled \in BOOLEAN
  /\ now = 1
  /\ admin = [p \in AdminPages |-> IdleAdmin]
  /\ display = [p \in DisplayPages |-> IdleDisplay]
  /\ deskPage = [p \in DeskPages |-> IdleDeskPage]
  /\ \E v \in FeesVersions : fees = [p \in FeesPages |-> IdleFees(v)]

\* the pages with the tables of /api/auto-assign empty and no request made
Init ==
  /\ PagesInit
  /\ computers = [c \in ComputerIds |-> NoComputer]
  /\ token = [t \in PersonIds |-> NoPerson]
  /\ request = [r \in Requests |-> NoRequest]

\* ------------------------------------------------- display page: fetchData
\* .from('desks').select('*').eq('is_active', true).order('desk_number')
ActiveDesksData ==
  LET S == {d \in DeskIds : DeskExists(d) /\ desks[d].is_active}
      ids == OrderBy(S, [d \in DeskIds |-> desks[d].desk_number])
  IN [i \in 1..Len(ids) |->
        [id |-> ids[i], status |-> desks[ids[i]].status,
         assigned_token_id |-> desks[ids[i]].assigned_token_id,
         is_active |-> desks[ids[i]].is_active]]

\* .from('tokens').select('*').order('token_number'), as ids
TokensData ==
  OrderBy({t \in TokenIds : TokenExists(t)},
          [t \in TokenIds |-> tokens[t].token_number])

\* processedDesks: each desk with the token its assigned_token_id finds in
\* tokensData (NULL when there is no id or no such row)
ProcessedDesks(desksData) ==
  [i \in 1..Len(desksData) |->
     [id |-> desksData[i].id, status |-> desksData[i].status,
      is_active |-> desksData[i].is_active,
      assigned_token |->
        IF desksData[i].assigned_token_id # NULL
           /\ TokenExists(desksData[i].assigned_token_id)
        THEN desksData[i].assigned_token_id ELSE NULL]]

\* tokensData.filter(token => token.status === 'waiting')
WaitingTokensData == SelectSeq(TokensData, LAMBDA t : tokens[t].status = "waiting")

\* a fetchData call of the page is between its first request and its end
InFlight(r) == r.pc \in {"fetchDesks", "fetchTokens"}

\* the page's fetchData call ends, having installed its view or not: the
\* record of the order of issue is brought up to date
EndFetch(r, installed) ==
  [r EXCEPT !.overtaken = FALSE,
            !.vstale = IF installed THEN r.overtaken ELSE @,
            !.vold = IF installed THEN FALSE ELSE @,
            !.poll2 = IF @.pc = "idle" THEN @
                      ELSE [@ EXCEPT !.later = FALSE,
                                     !.overtaken = @ \/ (installed /\ ~r.poll2.later),
                                     !.older = @ \/ (installed /\ r.poll2.readIdle)]]

\* first round trip of fetchData (desks); on error the catch leaves the view
FetchDesks(p, ok) ==
  /\ display[p].pc = "fetchDesks"
  /\ display' = [display EXCEPT ![p] =
       IF ok THEN [@ EXCEPT !.pc = "fetchTokens", !.got = ActiveDesksData]
       ELSE EndFetch([@ EXCEPT !.op = "none", !.pc = "idle", !.tok = NULL,
                               !.desk = NULL, !.got = <<>>, !.one = FALSE],
                     FALSE)]
  /\ UNCHANGED <<store, now, admin, deskPage, fees, apiVars>>

\* second and third round trips (tokens, system_settings) and the setState
\* calls that replace the view wholesale
FetchTokens(p, ok) ==
  /\ display[p].pc = "fetchTokens"
  /\ display' = [display EXCEPT ![p] =
       IF ok THEN EndFetch([@ EXCEPT !.op = "none", !.pc = "idle", !.got = <<>>,
                                     !.tok = NULL, !.desk = NULL, !.one = FALSE,
                                     !.vdesks = ProcessedDesks(display[p].got),
                                     !.vwaiting = WaitingTokensData,
                                     !.venabled = auto_assign_enabled],
                           TRUE)
       ELSE EndFetch([@ EXCEPT !.op = "none", !.pc = "idle", !.got = <<>>,
                               !.tok = NULL, !.desk = NULL, !.one = FALSE],
                     FALSE)]
  /\ UNCHANGED <<store, now, admin, deskPage, fees, apiVars>>

\* ------------------------------- display page: a second fetchData in flight
\* the 5 s refresh timer (or the Refresh button, or the refresh after a
\* handler) calls fetchData while another call may still be in flight:
\* nothing in the page waits for, cancels or orders the calls
Poll2(p) ==
  /\ display[p].poll2.pc = "idle"
  /\ display' = [display EXCEPT ![p].poll2 =
       [IdlePoll EXCEPT !.pc = "fetchDesks", !.later = InFlight(display[p])]]
  /\ UNCHANGED <<store, now, admin, deskPage, fees, apiVars>>

\* the second call ends, having installed its view or not
EndPoll2(r, installed) ==
  [r EXCEPT !.poll2 = IdlePoll,
            !.vstale = IF installed THEN r.poll2.overtaken ELSE @,
            !.vold = IF installed THEN r.poll2.older ELSE @,
            !.overtaken = @ \/ (installed /\ r.poll2.later)]

\* its first round trip (desks)
Poll2FetchDesks(p, ok) ==
  /\ display[p].poll2.pc = "fetchDesks"
  /\ display' = [display EXCEPT ![p] =
       IF ok THEN [@ EXCEPT !.poll2 = [@ EXCEPT !.pc = "fetchTokens",
                                                !.got = ActiveDesksData,
                                                !.readIdle = ~InFlight(display[p])]]
       ELSE EndPoll2(@, FALSE)]
  /\ UNCHANGED <<store, now, admin, deskPage, fees, apiVars>>

\* a second call whose response is dropped when a call issued later has
\* already installed its view
Poll2FetchTokensDroppingOlder(p, ok) ==
  /\ display[p].poll2.pc = "fetchTokens"
  /\ display' = [display EXCEPT ![p] =
       IF ok /\ ~display[p].poll2.overtaken
       THEN EndPoll2([@ EXCEPT !.vdesks = ProcessedDesks(display[p].poll2.got),
                               !.vwaiting = WaitingTokensData,
                               !.venabled = auto_assign_enabled],
                     TRUE)
       ELSE EndPoll2(@, FALSE)]
  /\ UNCHANGED <<store, now, admin, deskPage, fees, apiVars>>

\* its second and third round trips and the setState calls: the view is
\* replaced whatever call installed the current one; a handler of the page
\* that is under way keeps the token and desk it took from the older view
Poll2FetchTokens(p, ok) ==
  /\ display[p].poll2.pc = "fetchTokens"
  /\ display' = [display EXCEPT ![p] =
       IF ok
       THEN EndPoll2([@ EXCEPT !.vdesks = ProcessedDesks(display[p].poll2.got),
                               !.vwaiting = WaitingTokensData,
                               !.venabled = auto_assign_enabled],
                     TRUE)
       ELSE EndPoll2(@, FALSE)]
  /\ UNCHANGED <<store, now, admin, deskPage, fees, apiVars>>

Poll2Step(p) ==
  \/ Poll2(p)
  \/ \E ok \in BOOLEAN : Poll2FetchDesks(p, ok)
  \/ \E ok \in BOOLEAN : Poll2FetchTokens(p, ok)

\* the 5 s refresh timer (or the Refresh button) calls fetchData
Poll(p) ==
  /\ display[p].pc = "idle"
  /\ display' = [display EXCEPT ![p].op = "poll", ![p].pc = "fetchDesks",
                                ![p].tok = NULL, ![p].desk = NULL]
  /\ UNCHANGED <<store, now, admin, deskPage, fees, apiVars>>

\* ------------------------------------- display page: performAutoAssignment
Aborted(r) == [r EXCEPT !.op = "none", !.pc = "idle", !.tok = NULL, !.desk = NULL,
                        !.got = <<>>, !.one = FALSE]

\* a find that takes any desk of the view that is not occupied
FirstUnoccupiedDeskIndex(vdesks) ==
  LET F == {i \in 1..Len(vdesks) : vdesks[i].status # "occupied"}
  IN IF F = {} THEN 0 ELSE CHOOSE i \in F : \A j \in F : i <= j

\* token t is assigned to desk d, which does not reference it
AssignmentHalfDone(t, d) ==
  /\ t \in TokenIds /\ d \in DeskIds
  /\ tokens[t].status = "assigned" /\ tokens[t].assigned_desk_id = d
  /\ DeskExists(d) /\ desks[d].assigned_token_id # t

\* desk d still references token t, which is no longer assigned
CompletionHalfDone(t, d) ==
  /\ t \in TokenIds /\ d \in DeskIds
  /\ DeskExists(d) /\ desks[d].assigned_token_id = t
  /\ tokens[t].status # "assigned"

HalfDone(t, d) == AssignmentHalfDone(t, d) \/ CompletionHalfDone(t, d)

\* the catch after a failed second update: the handler ends.  What the
\* failure left is kept on record (read by no handler) until the page's next
\* handler begins: op "halfDone" with the token and desk of the attempt when
\* the store has them in disagreement, "failed" otherwise
SecondFailed(r, half) ==
  [r EXCEPT !.op = IF half THEN "halfDone" ELSE "failed", !.pc = "idle",
            !.got = <<>>, !.one = FALSE]

\* desks.find(desk => desk.status === 'free' && desk.is_active): the index
\* in the view of the first such desk, 0 when there is none
FreeDeskIndex(vdesks) ==
  LET F == {i \in 1..Len(vdesks) : vdesks[i].status = "free" /\ vdesks[i].is_active}
  IN IF F = {} THEN 0 ELSE CHOOSE i \in F : \A j \in F : i <= j

\* what the store holds when a pass fires: exactly one free active desk and
\* exactly one waiting token (recorded with the pass, read by no handler)
OneFreeOneWaiting ==
  /\ Cardinality({d \in DeskIds : DeskExists(d) /\ desks[d].is_active
                                  /\ desks[d].status = "free"}) = 1
  /\ Cardinality({t \in TokenIds : tokens[t].status = "waiting"}) = 1

\* a pass that does not look at the enable flag of its view
PassStartIgnoringFlag(p) ==
  /\ display[p].pc = "idle"
  /\ Len(display[p].vwaiting) # 0
  /\ FreeDeskIndex(display[p].vdesks) # 0
  /\ display' = [display EXCEPT ![p] =
       [@ EXCEPT !.op = "pass", !.pc = "updToken",
                 !.tok = display[p].vwaiting[1],
                 !.desk = display[p].vdesks[FreeDeskIndex(display[p].vdesks)].id,
                 !.one = OneFreeOneWaiting,
                 !.onOlder = display[p].vold]]
  /\ UNCHANGED <<store, now, admin, deskPage, fees, apiVars>>

\* the 3 s timer fires: the guards of performAutoAssignment on the page's
\* view, then nextToken = waitingTokens[0] and freeDesk; the token update is
\* sent
PassStart(p) ==
  /\ display[p].pc = "idle"
  /\ display[p].venabled
  /\ Len(display[p].vwaiting) # 0
  /\ FreeDeskIndex(display[p].vdesks) # 0
  /\ display' = [display EXCEPT ![p] =
       [@ EXCEPT !.op = "pass", !.pc = "updToken",
                 !.tok = display[p].vwaiting[1],
                 !.desk = display[p].vdesks[FreeDeskIndex(display[p].vdesks)].id,
                 !.one = OneFreeOneWaiting,
                 !.onOlder = display[p].vold]]
  /\ UNCHANGED <<store, now, admin, deskPage, fees, apiVars>>

\* a token update that applies only while the store has the desk free and
\* no token assigned to it
AssignTokenRowIfDeskFree(t, d) ==
  IF /\ TokenExists(t) /\ DeskExists(d) /\ desks[d].status = "free"
     /\ \A u \in TokenIds : ~(tokens[u].status = "assigned"
                              /\ tokens[u].assigned_desk_id = d)
  THEN [tokens EXCEPT ![t].status = "assigned", ![t].assigned_desk_id = d,
                      ![t].assigned_at = now]
  ELSE tokens

\* tokens.update({status: 'assigned', assigned_desk_id, assigned_at})
\*       .eq('id', nextToken.id): no row matched is no error
AssignTokenRow(t, d) ==
  IF TokenExists(t)
  THEN [tokens EXCEPT ![t].status = "assigned", ![t].assigned_desk_id = d,
                      ![t].assigned_at = now]
  ELSE tokens

PassUpdateToken(p, ok) ==
  /\ display[p].op = "pass" /\ display[p].pc = "updToken"
  /\ IF ok
     THEN /\ tokens' = AssignTokenRow(display[p].tok, display[p].desk)
          /\ display' = [display EXCEPT ![p].pc = "updDesk"]
     ELSE /\ tokens' = tokens
          /\ display' = [display EXCEPT ![p] = Aborted(@)]
  /\ UNCHANGED <<desks, token_counter, desk_counter, auto_assign_enabled, now,
                 admin, deskPage, fees,
                 apiVars>>

\* desks.update({status: 'occupied', assigned_token_id, assigned_at})
\*      .eq('id', freeDesk.id)
OccupyDeskRow(d, t) ==
  IF DeskExists(d)
  THEN [desks EXCEPT ![d].status = "occupied", ![d].assigned_token_id = t,
                     ![d].assigned_at = now]
  ELSE desks

\* a pass that, when its desk update fails, puts the token back to waiting
PassUpdateDeskRollingBack(p, ok) ==
  /\ display[p].op = "pass" /\ display[p].pc = "updDesk"
  /\ IF ok
     THEN /\ desks' = OccupyDeskRow(display[p].desk, display[p].tok)
          /\ tokens' = tokens
          /\ display' = [display EXCEPT ![p].pc = "fetchDesks"]
     ELSE /\ desks' = desks
          /\ tokens' = IF TokenExists(display[p].tok)
                       THEN [tokens EXCEPT ![display[p].tok].status = "waiting",
                                           ![display[p].tok].assigned_desk_id = NULL,
                                           ![display[p].tok].assigned_at = NULL]
                       ELSE tokens
          /\ display' = [display EXCEPT ![p] = SecondFailed(@, FALSE)]
  /\ UNCHANGED <<token_counter, desk_counter, auto_assign_enabled, now,
                 admin, deskPage, fees,
                 apiVars>>

\* the desk update, then (on success) the refresh fetchData() begins
PassUpdateDesk(p, ok) ==
  /\ display[p].op = "pass" /\ display[p].pc = "updDesk"
  /\ IF ok
     THEN /\ desks' = OccupyDeskRow(display[p].desk, display[p].tok)
          /\ display' = [display EXCEPT ![p].pc = "fetchDesks"]
     ELSE /\ desks' = desks
          /\ display' = [display EXCEPT ![p] =
               SecondFailed(@, AssignmentHalfDone(display[p].tok, display[p].desk))]
  /\ UNCHANGED <<tokens, token_counter, desk_counter, auto_assign_enabled, now,
                 admin, deskPage, fees,
                 apiVars>>

\* ------------------------------------------- display page: completeToken
\* a completion that also clears the token's desk reference
CompleteTokenRowClearingDesk(t) ==
  IF TokenExists(t)
  THEN [tokens EXCEPT ![t].status = "completed", ![t].assigned_desk_id = NULL]
  ELSE tokens

\* tokens.update({status: 'completed'}).eq('id', tokenId)
CompleteTokenRow(t) ==
  IF TokenExists(t) THEN [tokens EXCEPT ![t].status = "completed"] ELSE tokens

\* the Complete button of the i-th desk card (shown when the view's desk has
\* an assigned_token) calls completeToken(desk.assigned_token.id, desk.id);
\* first round trip: the token update
DisplayCompleteToken(p, i, ok) ==
  /\ display[p].pc = "idle"
  /\ i \in 1..Len(display[p].vdesks)
  /\ display[p].vdesks[i].assigned_token # NULL
  /\ IF ok
     THEN /\ tokens' = CompleteTokenRow(display[p].vdesks[i].assigned_token)
          /\ display' = [display EXCEPT ![p] =
               [@ EXCEPT !.op = "complete", !.pc = "updDesk",
                         !.tok = display[p].vdesks[i].assigned_token,
                         !.desk = display[p].vdesks[i].id]]
     ELSE UNCHANGED <<tokens, display>>
  /\ UNCHANGED <<desks, token_counter, desk_counter, auto_assign_enabled, now,
                 admin, deskPage, fees,
                 apiVars>>

\* a desk update that clears the reference and leaves the status occupied
DisplayFreeDeskRowKeepingStatus(d) ==
  IF DeskExists(d)
  THEN [desks EXCEPT ![d].assigned_token_id = NULL, ![d].assigned_at = NULL]
  ELSE desks

\* desks.update({status: 'free', assigned_token_id: null, assigned_at: null})
\*      .eq('id', deskId): total_tokens_served is not in the update
DisplayFreeDeskRow(d) ==
  IF DeskExists(d)
  THEN [desks EXCEPT ![d].status = "free", ![d].assigned_token_id = NULL,
                     ![d].assigned_at = NULL]
  ELSE desks

DisplayCompleteDesk(p, ok) ==
  /\ display[p].op = "complete" /\ display[p].pc = "updDesk"
  /\ IF ok
     THEN /\ desks' = DisplayFreeDeskRow(display[p].desk)
          /\ display' = [display EXCEPT ![p].pc = "fetchDesks"]
     ELSE /\ desks' = desks
          /\ display' = [display EXCEPT ![p] =
               SecondFailed(@, CompletionHalfDone(display[p].tok, display[p].desk))]
  /\ UNCHANGED <<tokens, token_counter, desk_counter, auto_assign_enabled, now,
                 admin, deskPage, fees,
                 apiVars>>

DisplayStep(p) ==
  \/ Poll(p)
  \/ \E ok \in BOOLEAN : FetchDesks(p, ok)
  \/ \E ok \in BOOLEAN : FetchTokens(p, ok)
  \/ PassStart(p)
  \/ \E ok \in BOOLEAN : PassUpdateToken(p, ok)
  \/ \E ok \in BOOLEAN : PassUpdateDesk(p, ok)
  \/ \E ok \in BOOLEAN, i \in 1..MaxDesks : DisplayCompleteToken(p, i, ok)
  \/ \E ok \in BOOLEAN : DisplayCompleteDesk(p, ok)

\* -------------------------------------------------- desk page: fetchDeskData
\* router.query.deskNumber resolves: the page is opened at /desk/<n>
OpenDeskPage(p, n) ==
  /\ deskPage[p].deskNumber = 0
  /\ deskPage' = [deskPage EXCEPT ![p].deskNumber = n]
  /\ UNCHANGED <<store, now, admin, display, fees, apiVars>>

\* .from('desks').select('*').eq('desk_number', n): the matching ids
DesksNumbered(n) == {d \in DeskIds : DeskExists(d) /\ desks[d].desk_number = n}

\* first round trip of fetchDeskData, .single(): no row or several rows is
\* PGRST116 (setDesk(null)); another error leaves the view; a desk without
\* assigned_token_id is installed at once with assigned_token null
DeskFetchDesk(p, ok) ==
  /\ deskPage[p].deskNumber # 0
  /\ deskPage[p].pc \in {"idle", "fetchDesk"}
  /\ LET S == DesksNumbered(deskPage[p].deskNumber)
         d == CHOOSE x \in S : TRUE
     IN deskPage' = [deskPage EXCEPT ![p] =
          IF ~ok THEN [@ EXCEPT !.pc = "idle"]
          ELSE IF Cardinality(S) # 1
               THEN [@ EXCEPT !.pc = "idle", !.vdesk = NULL, !.vtoken = NULL]
          ELSE IF desks[d].assigned_token_id = NULL
               THEN [@ EXCEPT !.pc = "idle", !.vdesk = d, !.vtoken = NULL]
          ELSE [@ EXCEPT !.pc = "fetchToken",
                         !.got = <<d, desks[d].assigned_token_id>>]]
  /\ UNCHANGED <<store, now, admin, display, fees, apiVars>>

\* second round trip: the assigned token by id, .single(); an error or a
\* missing row throws and the view stays as it was
DeskFetchToken(p, ok) ==
  /\ deskPage[p].pc = "fetchToken"
  /\ deskPage' = [deskPage EXCEPT ![p] =
       IF ok /\ TokenExists(deskPage[p].got[2])
       THEN [@ EXCEPT !.pc = "idle", !.got = NULL,
                      !.vdesk = deskPage[p].got[1], !.vtoken = deskPage[p].got[2]]
       ELSE [@ EXCEPT !.pc = "idle", !.got = NULL]]
  /\ UNCHANGED <<store, now, admin, display, fees, apiVars>>

\* -------------------------------------------------- desk page: completeToken
\* the Complete button: guard !desk || !desk.assigned_token, then the token
\* update .eq('id', desk.assigned_token.id)
DeskCompleteToken(p, ok) ==
  /\ deskPage[p].pc = "idle"
  /\ deskPage[p].vdesk # NULL /\ deskPage[p].vtoken # NULL
  /\ desks[deskPage[p].vdesk].total_tokens_served < MaxServed
  /\ IF ok
     THEN /\ tokens' = CompleteTokenRow(deskPage[p].vtoken)
          /\ deskPage' = [deskPage EXCEPT ![p].pc = "readServed"]
     ELSE UNCHANGED <<tokens, deskPage>>
  /\ UNCHANGED <<desks, token_counter, desk_counter, auto_assign_enabled, now,
                 admin, display, fees,
                 apiVars>>

\* desks.select('total_tokens_served').eq('id', desk.id).single()
DeskReadServed(p, ok) ==
  /\ deskPage[p].pc = "readServed"
  /\ desks[deskPage[p].vdesk].total_tokens_served < MaxServed
  /\ deskPage' = [deskPage EXCEPT ![p] =
       IF ok /\ DeskExists(deskPage[p].vdesk)
       THEN [@ EXCEPT !.pc = "writeDesk",
                      !.served = desks[deskPage[p].vdesk].total_tokens_served]
       ELSE [@ EXCEPT !.pc = "idle"]]
  /\ UNCHANGED <<store, now, admin, display, fees, apiVars>>

\* a desk update that frees the desk and leaves total_tokens_served
DeskFreeDeskRowKeepingServed(d, served) ==
  IF DeskExists(d)
  THEN [desks EXCEPT ![d].status = "free", ![d].assigned_token_id = NULL,
                     ![d].assigned_at = NULL]
  ELSE desks

\* desks.update({status: 'free', assigned_token_id: null, assigned_at: null,
\*   total_tokens_served: currentDeskData.total_tokens_served + 1})
DeskFreeDeskRow(d, served) ==
  IF DeskExists(d)
  THEN [desks EXCEPT ![d].status = "free", ![d].assigned_token_id = NULL,
                     ![d].assigned_at = NULL,
                     ![d].total_tokens_served = served + 1]
  ELSE desks

\* the desk update, then (on success) the refresh fetchDeskData() begins
DeskCompleteDesk(p, ok) ==
  /\ deskPage[p].pc = "writeDesk"
  /\ IF ok
     THEN /\ desks' = DeskFreeDeskRow(deskPage[p].vdesk, deskPage[p].served)
          /\ deskPage' = [deskPage EXCEPT ![p].pc = "fetchDesk", ![p].served = 0]
     ELSE /\ desks' = desks
          /\ deskPage' = [deskPage EXCEPT ![p].pc = "idle", ![p].served = 0]
  /\ UNCHANGED <<tokens, token_counter, desk_counter, auto_assign_enabled, now,
                 admin, display, fees,
                 apiVars>>

DeskPageStep(p) ==
  \/ \E n \in DeskIds : OpenDeskPage(p, n)
  \/ \E ok \in BOOLEAN : DeskFetchDesk(p, ok)
  \/ \E ok \in BOOLEAN : DeskFetchToken(p, ok)
  \/ \E ok \in BOOLEAN : DeskCompleteToken(p, ok)
  \/ \E ok \in BOOLEAN : DeskReadServed(p, ok)
  \/ \E ok \in BOOLEAN : DeskCompleteDesk(p, ok)

\* ------------------------------------------------------------- fees page
\* fetchTokens: .from('tokens').eq('status', 'completed') and the reads that
\* follow it; the completed list is installed when all of them succeeded
FeesFetch(p, ok) ==
  /\ fees[p].pc \in {"idle", "fetch"}
  /\ fees' = [fees EXCEPT ![p] =
       IF ok THEN [@ EXCEPT !.pc = "idle",
                   !.vcompleted = {t \in TokenIds : tokens[t].status = "completed"}]
       ELSE [@ EXCEPT !.pc = "idle"]]
  /\ UNCHANGED <<store, now, admin, display, deskPage, apiVars>>

\* src/src/pages/fees/index.tsx: tokens.delete().eq('id', tokenId)
DeleteTokenRow(t) ==
  IF TokenExists(t) THEN [tokens EXCEPT ![t] = [NoToken EXCEPT !.status = "deleted"]]
  ELSE tokens

\* src/unnamed/part_001: tokens.update({status: 'paid', updated_at: now})
\*                             .eq('id', tokenId)
PaidTokenRow(t) ==
  IF TokenExists(t) THEN [tokens EXCEPT ![t].status = "paid", ![t].updated_at = now]
  ELSE tokens

\* the desk a token row points at, NULL when there is no such row
DeskOfToken(t) ==
  IF TokenExists(t) /\ tokens[t].assigned_desk_id # NULL
     /\ DeskExists(tokens[t].assigned_desk_id)
  THEN tokens[t].assigned_desk_id ELSE NULL

\* a payment that also counts the token on the desk that served it
MarkAsPaidCountingServed(p, t, ok) ==
  /\ fees[p].pc = "idle"
  /\ t \in fees[p].vcompleted
  /\ IF ok
     THEN /\ tokens' = IF fees[p].version = "delete" THEN DeleteTokenRow(t)
                                                           ELSE PaidTokenRow(t)
          /\ desks' = IF DeskOfToken(t) # NULL
                      THEN [desks EXCEPT ![DeskOfToken(t)].total_tokens_served = @ + 1]
                      ELSE desks
          /\ fees' = [fees EXCEPT ![p].pc = "fetch"]
     ELSE UNCHANGED <<tokens, desks, fees>>
  /\ UNCHANGED <<token_counter, desk_counter, auto_assign_enabled, now,
                 admin, display, deskPage,
                 apiVars>>

\* a payment that also frees the desk that served the token
MarkAsPaidFreeingDesk(p, t, ok) ==
  /\ fees[p].pc = "idle"
  /\ t \in fees[p].vcompleted
  /\ IF ok
     THEN /\ tokens' = IF fees[p].version = "delete" THEN DeleteTokenRow(t)
                                                           ELSE PaidTokenRow(t)
          /\ desks' = IF DeskOfToken(t) # NULL
                      THEN [desks EXCEPT ![DeskOfToken(t)].status = "free",
                                         ![DeskOfToken(t)].assigned_token_id = NULL,
                                         ![DeskOfToken(t)].assigned_at = NULL]
                      ELSE desks
          /\ fees' = [fees EXCEPT ![p].pc = "fetch"]
     ELSE UNCHANGED <<tokens, desks, fees>>
  /\ UNCHANGED <<token_counter, desk_counter, auto_assign_enabled, now,
                 admin, display, deskPage,
                 apiVars>>

\* the Mark as Paid button of a token of the page's completed list, confirmed
\* in the dialog; then (on success) the refresh fetchTokens() begins
MarkAsPaid(p, t, ok) ==
  /\ fees[p].pc = "idle"
  /\ t \in fees[p].vcompleted
  /\ IF ok
     THEN /\ tokens' = IF fees[p].version = "delete" THEN DeleteTokenRow(t)
                                                           ELSE PaidTokenRow(t)
          /\ fees' = [fees EXCEPT ![p].pc = "fetch"]
     ELSE UNCHANGED <<tokens, fees>>
  /\ UNCHANGED <<desks, token_counter, desk_counter, auto_assign_enabled, now,
                 admin, display, deskPage,
                 apiVars>>

FeesStep(p) ==
  \/ \E ok \in BOOLEAN : FeesFetch(p, ok)
  \/ \E ok \in BOOLEAN, t \in TokenIds : MarkAsPaid(p, t, ok)

\* the wall clock advances
Tick ==
  /\ now < MaxTime
  /\ now' = now + 1
  /\ UNCHANGED <<store, admin, display, deskPage, fees, apiVars>>

\* ------------------------------------------------ admin page: createToken
\* rows the store can still take: free ids minus the inserts under way
TokenRoom ==
  Cardinality({t \in TokenIds : tokens[t].status = "none"})
    > Cardinality({q \in AdminPages : admin[q].pc \in {"tUpdate", "tInsert"}})

DeskRoom ==
  Cardinality({d \in DeskIds : desks[d].status = "none"})
    > Cardinality({q \in AdminPages : admin[q].pc \in {"dUpdate", "dInsert"}})

\* a createToken that does not check the name and goes on to the counter
CreateTokenUnchecked(p, nm) ==
  /\ admin[p].pc = "idle"
  /\ Trim(nm) = ""
  /\ admin' = [admin EXCEPT ![p] = [@ EXCEPT !.pc = "tUpdate",
                                             !.next = token_counter + 1,
                                             !.name = Trim(nm)]]
  /\ UNCHANGED <<store, now, display, deskPage, fees, apiVars>>

\* createToken(name) with a blank name: the guard !tokenName.trim() sets the
\* alert 'Please enter a token name' and returns
CreateTokenRejected(p, nm) ==
  /\ admin[p].pc = "idle"
  /\ Trim(nm) = ""
  /\ admin' = [admin EXCEPT ![p] = Finished("enterTokenName")]
  /\ UNCHANGED <<store, now, display, deskPage, fees, apiVars>>

\* the 5 s timer of the alert effect: setAlert(null)
ClearAlert(p) ==
  /\ admin[p].alert # "none"
  /\ admin' = [admin EXCEPT ![p].alert = "none"]
  /\ UNCHANGED <<store, now, display, deskPage, fees, apiVars>>

\* a createToken that takes the number read as the next number
CreateTokenReadSameNumber(p, nm, ok) ==
  /\ admin[p].pc = "idle"
  /\ Trim(nm) # ""
  /\ TokenRoom /\ token_counter < MaxNumber
  /\ admin' = [admin EXCEPT ![p] =
       IF ok THEN [@ EXCEPT !.pc = "tUpdate", !.next = token_counter,
                            !.name = Trim(nm)]
       ELSE Finished("failed")]
  /\ UNCHANGED <<store, now, display, deskPage, fees, apiVars>>

\* createToken(name): the guard !tokenName.trim(), then the first round
\* trip, token_counter.select('last_token_number').eq('id', 1).single();
\* nextTokenNumber = last_token_number + 1
CreateTokenRead(p, nm, ok) ==
  /\ admin[p].pc = "idle"
  /\ Trim(nm) # ""
  /\ TokenRoom /\ token_counter < MaxNumber
  /\ admin' = [admin EXCEPT ![p] =
       IF ok THEN [@ EXCEPT !.pc = "tUpdate", !.next = token_counter + 1,
                            !.name = Trim(nm)]
       ELSE Finished("failed")]
  /\ UNCHANGED <<store, now, display, deskPage, fees, apiVars>>

\* token_counter.update({last_token_number: nextTokenNumber}).eq('id', 1)
CreateTokenUpdate(p, ok) ==
  /\ admin[p].pc = "tUpdate"
  /\ IF ok
     THEN /\ token_counter' = admin[p].next
          /\ admin' = [admin EXCEPT ![p].pc = "tInsert"]
     ELSE /\ token_counter' = token_counter
          /\ admin' = [admin EXCEPT ![p] = Finished("failed")]
  /\ UNCHANGED <<tokens, desks, desk_counter, auto_assign_enabled, now,
                 display, deskPage, fees,
                 apiVars>>

\* tokens.insert({token_number: nextTokenNumber, name: tokenName.trim()})
CreateTokenInsert(p, ok) ==
  /\ admin[p].pc = "tInsert"
  /\ IF ok
     THEN tokens' = [tokens EXCEPT ![NextTokenId] =
                       NewToken(admin[p].next, admin[p].name)]
     ELSE tokens' = tokens
  /\ admin' = [admin EXCEPT ![p] = Finished(IF ok THEN "success" ELSE "failed")]
  /\ UNCHANGED <<desks, token_counter, desk_counter, auto_assign_enabled, now,
                 display, deskPage, fees,
                 apiVars>>

\* resetTokenCounter, confirmed: token_counter.update({last_token_number: 0});
\* no token row is touched
ResetTokenCounter(p, ok) ==
  /\ admin[p].pc = "idle"
  /\ token_counter' = IF ok THEN 0 ELSE token_counter
  /\ admin' = [admin EXCEPT ![p] = Finished(IF ok THEN "success" ELSE "failed")]
  /\ UNCHANGED <<tokens, desks, desk_counter, auto_assign_enabled, now,
                 display, deskPage, fees,
                 apiVars>>

\* ---------------------------------------------------- admin page: addDesk
\* addDesk with a blank operator name: the guard !operatorName.trim() sets
\* the alert 'Please enter an operator name' and returns
AddDeskRejected(p, nm) ==
  /\ admin[p].pc = "idle"
  /\ Trim(nm) = ""
  /\ admin' = [admin EXCEPT ![p] = Finished("enterOperatorName")]
  /\ UNCHANGED <<store, now, display, deskPage, fees, apiVars>>

\* addDesk(operatorName): the guard, then desk_counter
\* .select('last_desk_number').eq('id', 1).single()
AddDeskRead(p, nm, ok) ==
  /\ admin[p].pc = "idle"
  /\ Trim(nm) # ""
  /\ DeskRoom /\ desk_counter < MaxNumber
  /\ admin' = [admin EXCEPT ![p] =
       IF ok THEN [@ EXCEPT !.pc = "dUpdate", !.next = desk_counter + 1,
                            !.name = Trim(nm)]
       ELSE Finished("failed")]
  /\ UNCHANGED <<store, now, display, deskPage, fees, apiVars>>

AddDeskUpdate(p, ok) ==
  /\ admin[p].pc = "dUpdate"
  /\ IF ok
     THEN /\ desk_counter' = admin[p].next
          /\ admin' = [admin EXCEPT ![p].pc = "dInsert"]
     ELSE /\ desk_counter' = desk_counter
          /\ admin' = [admin EXCEPT ![p] = Finished("failed")]
  /\ UNCHANGED <<tokens, desks, token_counter, auto_assign_enabled, now,
                 display, deskPage, fees,
                 apiVars>>

\* desks.insert({desk_number: nextDeskNumber, ..., total_tokens_served: 0,
\*               is_active: true})
AddDeskInsert(p, ok) ==
  /\ admin[p].pc = "dInsert"
  /\ IF ok
     THEN desks' = [desks EXCEPT ![NextDeskId] = NewDesk(admin[p].next)]
     ELSE desks' = desks
  /\ admin' = [admin EXCEPT ![p] = Finished(IF ok THEN "success" ELSE "failed")]
  /\ UNCHANGED <<tokens, token_counter, desk_counter, auto_assign_enabled, now,
                 display, deskPage, fees,
                 apiVars>>

\* ------------------------------------- admin page: deleteDesk, resetDesks
DeletedDesk == [NoDesk EXCEPT !.status = "deleted"]

\* deleteDesk(deskId), confirmed: desks.delete().eq('id', deskId)
DeleteDesk(p, d, ok) ==
  /\ admin[p].pc = "idle"
  /\ desks[d].status # "none"
  /\ desks' = IF ok /\ DeskExists(d) THEN [desks EXCEPT ![d] = DeletedDesk] ELSE desks
  /\ admin' = [admin EXCEPT ![p] = Finished(IF ok THEN "success" ELSE "failed")]
  /\ UNCHANGED <<tokens, token_counter, desk_counter, auto_assign_enabled, now,
                 display, deskPage, fees,
                 apiVars>>

\* resetDesks, confirmed: desks.delete().neq('id', 0)
ResetDesksDelete(p, ok) ==
  /\ admin[p].pc = "idle"
  /\ IF ok
     THEN /\ desks' = [d \in DeskIds |-> IF DeskExists(d) THEN DeletedDesk ELSE desks[d]]
          /\ admin' = [admin EXCEPT ![p].pc = "rdReset"]
     ELSE /\ desks' = desks
          /\ admin' = [admin EXCEPT ![p] = Finished("failed")]
  /\ UNCHANGED <<tokens, token_counter, desk_counter, auto_assign_enabled, now,
                 display, deskPage, fees,
                 apiVars>>

\* ... then desk_counter.update({last_desk_number: 0}).eq('id', 1)
ResetDesksCounter(p, ok) ==
  /\ admin[p].pc = "rdReset"
  /\ desk_counter' = IF ok THEN 0 ELSE desk_counter
  /\ admin' = [admin EXCEPT ![p] = Finished(IF ok THEN "success" ELSE "failed")]
  /\ UNCHANGED <<tokens, desks, token_counter, auto_assign_enabled, now,
                 display, deskPage, fees,
                 apiVars>>

\* one round trip of a counter allocation by page p
AllocStep(p) ==
  \/ \E nm \in Names : CreateTokenRejected(p, nm)
  \/ \E nm \in Names : AddDeskRejected(p, nm)
  \/ ClearAlert(p)
  \/ \E nm \in Names, ok \in BOOLEAN : CreateTokenRead(p, nm, ok)
  \/ \E ok \in BOOLEAN : CreateTokenUpdate(p, ok)
  \/ \E ok \in BOOLEAN : CreateTokenInsert(p, ok)
  \/ \E nm \in Names, ok \in BOOLEAN : AddDeskRead(p, nm, ok)
  \/ \E ok \in BOOLEAN : AddDeskUpdate(p, ok)
  \/ \E ok \in BOOLEAN : AddDeskInsert(p, ok)

\* one round trip of any admin operation by page p
AdminStep(p) ==
  \/ AllocStep(p)
  \/ \E ok \in BOOLEAN : ResetTokenCounter(p, ok)
  \/ \E d \in DeskIds, ok \in BOOLEAN : DeleteDesk(p, d, ok)
  \/ \E ok \in BOOLEAN : ResetDesksDelete(p, ok)
  \/ \E ok \in BOOLEAN : ResetDesksCounter(p, ok)

\* ------------------------------------------- CreatePCButton: handleCreate
NextComputerId ==
  IF \E c \in ComputerIds : ~computers[c].exists
  THEN CHOOSE c \in ComputerIds : /\ ~computers[c].exists
                                  /\ \A e \in ComputerIds : e < c => computers[e].exists
  ELSE 0

\* computers.insert([{name, status: true}])
HandleCreate(ok) ==
  /\ NextComputerId # 0
  /\ computers' = IF ok
                  THEN [computers EXCEPT ![NextComputerId] =
                          [exists |-> TRUE, status |-> TRUE, person_assigned |-> NULL]]
                  ELSE computers
  /\ UNCHANGED <<tokens, desks, token_counter, desk_counter, auto_assign_enabled, now,
                 admin, display, deskPage, fees>>
  /\ UNCHANGED <<token, request>>

\* ------------------------------------------------- /api/auto-assign handler
\* the response: res.status(code).json({step, ...}); the handler returns
Respond(r, code, step) == [r EXCEPT !.pc = "done", !.status = code, !.step = step]

\* a result set taken with .order("id", {ascending: true}).limit(1): the
\* least id of S
LastById(S) == CHOOSE x \in S : \A y \in S : y <= x

FirstById(S) == CHOOSE x \in S : \A y \in S : x <= y

\* computers.select(...).eq("status", true)
FreeComputers == {c \in ComputerIds : computers[c].exists /\ computers[c].status}

\* token.select(...).eq("status", true)
ActivePersons == {t \in PersonIds : token[t].exists /\ token[t].status}

\* a request that goes on to the store whatever its method
ApiRequestAnyMethod(r, m) ==
  /\ request[r].pc = "new"
  /\ request' = [request EXCEPT ![r] = [@ EXCEPT !.method = m, !.pc = "fetchComputer"]]
  /\ UNCHANGED <<tokens, desks, token_counter, desk_counter, auto_assign_enabled, now,
                 admin, display, deskPage, fees>>
  /\ UNCHANGED <<computers, token>>

\* a request arrives: req.method !== "POST" is answered 405
ApiRequest(r, m) ==
  /\ request[r].pc = "new"
  /\ request' = [request EXCEPT ![r] =
       IF m # "POST" THEN Respond([@ EXCEPT !.method = m], 405, "")
       ELSE [@ EXCEPT !.method = m, !.pc = "fetchComputer"]]
  /\ UNCHANGED <<tokens, desks, token_counter, desk_counter, auto_assign_enabled, now,
                 admin, display, deskPage, fees>>
  /\ UNCHANGED <<computers, token>>

\* 1. the first free computer: error 500, none 404
ApiFetchComputer(r, ok) ==
  /\ request[r].pc = "fetchComputer"
  /\ request' = [request EXCEPT ![r] =
       IF ~ok THEN Respond(@, 500, "fetchComputer")
       ELSE IF FreeComputers = {} THEN Respond(@, 404, "fetchComputer")
       ELSE [@ EXCEPT !.pc = "fetchToken", !.computer = FirstById(FreeComputers)]]
  /\ UNCHANGED <<tokens, desks, token_counter, desk_counter, auto_assign_enabled, now,
                 admin, display, deskPage, fees>>
  /\ UNCHANGED <<computers, token>>

\* 2. the oldest active token: error 500, none 404
ApiFetchToken(r, ok) ==
  /\ request[r].pc = "fetchToken"
  /\ request' = [request EXCEPT ![r] =
       IF ~ok THEN Respond(@, 500, "fetchToken")
       ELSE IF ActivePersons = {} THEN Respond(@, 404, "fetchToken")
       ELSE [@ EXCEPT !.pc = "updateComputer", !.token = FirstById(ActivePersons)]]
  /\ UNCHANGED <<tokens, desks, token_counter, desk_counter, auto_assign_enabled, now,
                 admin, display, deskPage, fees>>
  /\ UNCHANGED <<computers, token>>

\* 3. computers.update({status: false, person_assigned: token.id})
\*             .eq("id", computer.id)
ApiUpdateComputer(r, ok) ==
  /\ request[r].pc = "updateComputer"
  /\ IF ok
     THEN /\ computers' = [computers EXCEPT ![request[r].computer] =
                             [@ EXCEPT !.status = FALSE,
                                       !.person_assigned = request[r].token]]
          /\ request' = [request EXCEPT ![r] =
               [@ EXCEPT !.pc = "updateToken", !.wrote = @ \cup {"computers"}]]
     ELSE /\ computers' = computers
          /\ request' = [request EXCEPT ![r] = Respond(@, 500, "updateComputer")]
  /\ UNCHANGED <<tokens, desks, token_counter, desk_counter, auto_assign_enabled, now,
                 admin, display, deskPage, fees>>
  /\ token' = token

\* token.update({status: false}).eq("id", token.id), then 200
ApiUpdateToken(r, ok) ==
  /\ request[r].pc = "updateToken"
  /\ IF ok
     THEN /\ token' = [token EXCEPT ![request[r].token].status = FALSE]
          /\ request' = [request EXCEPT ![r] =
               Respond([@ EXCEPT !.wrote = @ \cup {"token"}], 200, "")]
     ELSE /\ token' = token
          /\ request' = [request EXCEPT ![r] = Respond(@, 500, "updateToken")]
  /\ UNCHANGED <<tokens, desks, token_counter, desk_counter, auto_assign_enabled, now,
                 admin, display, deskPage, fees>>
  /\ computers' = computers

\* one step of the handler on request r
ApiStep(r) ==
  \/ \E m \in Methods : ApiRequest(r, m)
  \/ \E ok \in BOOLEAN : ApiFetchComputer(r, ok)
  \/ \E ok \in BOOLEAN : ApiFetchToken(r, ok)
  \/ \E ok \in BOOLEAN : ApiUpdateComputer(r, ok)
  \/ \E ok \in BOOLEAN : ApiUpdateToken(r, ok)

\* ------------------------------------------------------- specifications
\* the queue: one display page, one desk page and one fees page
Next == DisplayStep(1) \/ DeskPageStep(1) \/ FeesStep(1)

Spec == Init /\ [][Next]_vars

\* display pages running their timers and buttons concurrently
DisplayNext == \E p \in DisplayPages : DisplayStep(p)

SpecDisplay == Init /\ [][DisplayNext]_vars

\* payment: a display page feeding completed tokens to the fees pages, with
\* the clock running
FeesNext == DisplayStep(1) \/ (\E p \in FeesPages : FeesStep(p)) \/ Tick

SpecFees == Init /\ [][FeesNext]_vars

\* admin pages allocating numbers concurrently
AllocNext == \E p \in AdminPages : AllocStep(p)

SpecAlloc == Init /\ [][AllocNext]_vars

\* no other admin page is inside an operation
Alone(p) == \A q \in AdminPages \ {p} : admin[q].pc = "idle"

\* admin operations one at a time
AdminSeqNext ==
  \E p \in AdminPages :
    \/ Alone(p) /\ \E nm \in Names : CreateTokenRejected(p, nm)
    \/ Alone(p) /\ \E nm \in Names : AddDeskRejected(p, nm)
    \/ ClearAlert(p)
    \/ Alone(p) /\ \E nm \in Names, ok \in BOOLEAN : CreateTokenRead(p, nm, ok)
    \/ Alone(p) /\ \E ok \in BOOLEAN : CreateTokenUpdate(p, ok)
    \/ Alone(p) /\ \E ok \in BOOLEAN : CreateTokenInsert(p, ok)
    \/ Alone(p) /\ \E ok \in BOOLEAN : ResetTokenCounter(p, ok)
    \/ Alone(p) /\ \E nm \in Names, ok \in BOOLEAN : AddDeskRead(p, nm, ok)
    \/ Alone(p) /\ \E ok \in BOOLEAN : AddDeskUpdate(p, ok)
    \/ Alone(p) /\ \E ok \in BOOLEAN : AddDeskInsert(p, ok)
    \/ Alone(p) /\ \E d \in DeskIds, ok \in BOOLEAN : DeleteDesk(p, d, ok)
    \/ Alone(p) /\ \E ok \in BOOLEAN : ResetDesksDelete(p, ok)
    \/ Alone(p) /\ \E ok \in BOOLEAN : ResetDesksCounter(p, ok)

SpecAdminSeq == Init /\ [][AdminSeqNext]_vars

\* createToken and addDesk one at a time, every round trip succeeding
AllocAloneNext ==
  \E p \in AdminPages :
    \/ Alone(p) /\ \E nm \in Names : CreateTokenRead(p, nm, TRUE)
    \/ Alone(p) /\ CreateTokenUpdate(p, TRUE)
    \/ Alone(p) /\ CreateTokenInsert(p, TRUE)
    \/ Alone(p) /\ \E nm \in Names : AddDeskRead(p, nm, TRUE)
    \/ Alone(p) /\ AddDeskUpdate(p, TRUE)
    \/ Alone(p) /\ AddDeskInsert(p, TRUE)

SpecAllocAlone == Init /\ [][AllocAloneNext]_vars

\* one display page on its own
OneDisplayNext == DisplayStep(1)

SpecOneDisplay == Init /\ [][OneDisplayNext]_vars

\* one display page whose fetchData calls overlap
PollsNext == DisplayStep(1) \/ Poll2Step(1)

SpecPolls == Init /\ [][PollsNext]_vars

\* one display page and one desk page, every round trip succeeding
LiveNext ==
  \/ Poll(1)
  \/ FetchDesks(1, TRUE)
  \/ FetchTokens(1, TRUE)
  \/ PassStart(1)
  \/ PassUpdateToken(1, TRUE)
  \/ PassUpdateDesk(1, TRUE)
  \/ \E i \in 1..MaxDesks : DisplayCompleteToken(1, i, TRUE)
  \/ DisplayCompleteDesk(1, TRUE)
  \/ \E n \in DeskIds : OpenDeskPage(1, n)
  \/ DeskFetchDesk(1, TRUE)
  \/ DeskFetchToken(1, TRUE)
  \/ DeskCompleteToken(1, TRUE)
  \/ DeskReadServed(1, TRUE)
  \/ DeskCompleteDesk(1, TRUE)

\* the interval timers keep firing (the 5 s refresh, the 3 s pass, the 3 s
\* poll of the desk page), the Complete button of a desk that shows a token
\* is pressed again and again, and a round trip that was sent is answered
LiveFairness ==
  /\ SF_vars(Poll(1))
  /\ SF_vars(PassStart(1))
  /\ \A i \in 1..MaxDesks : SF_vars(DisplayCompleteToken(1, i, TRUE))
  /\ SF_vars(DeskCompleteToken(1, TRUE))
  /\ WF_vars(FetchDesks(1, TRUE))
  /\ WF_vars(FetchTokens(1, TRUE))
  /\ WF_vars(PassUpdateToken(1, TRUE))
  /\ WF_vars(PassUpdateDesk(1, TRUE))
  /\ WF_vars(DisplayCompleteDesk(1, TRUE))
  /\ WF_vars(DeskFetchDesk(1, TRUE))
  /\ WF_vars(DeskFetchToken(1, TRUE))
  /\ WF_vars(DeskReadServed(1, TRUE))
  /\ WF_vars(DeskCompleteDesk(1, TRUE))

SpecLive == Init /\ [][LiveNext]_vars /\ LiveFairness

\* the desks: a display page assigning, desk pages completing concurrently
DesksNext == DisplayStep(1) \/ (\E p \in DeskPages : DeskPageStep(p))

SpecDesks == Init /\ [][DesksNext]_vars

\* the pages closed, the token table holding rows put there beforehand (no
\* code of the repository inserts them), each active or not
ApiInit ==
  /\ PagesInit
  /\ token_counter = 0 /\ desk_counter = 0 /\ ~auto_assign_enabled
  /\ fees[1].version = "delete"
  /\ computers = [c \in ComputerIds |-> NoComputer]
  /\ \E k \in 0..MaxPersons :
       token \in {f \in [PersonIds -> {NoPerson, [exists |-> TRUE, status |-> TRUE],
                                                  [exists |-> TRUE, status |-> FALSE]}] :
                    \A t \in PersonIds : f[t].exists <=> t <= k}
  /\ request = [r \in Requests |-> NoRequest]

\* /api/auto-assign serving concurrent requests while PCs are created
ApiNext == (\E ok \in BOOLEAN : HandleCreate(ok)) \/ (\E r \in Requests : ApiStep(r))

SpecApi == ApiInit /\ [][ApiNext]_vars

\* no other request is being handled
NoOtherRequest(r) == \A q \in Requests \ {r} : request[q].pc \in {"new", "done"}

\* /api/auto-assign serving one request at a time
ApiSeqNext ==
  \/ \E ok \in BOOLEAN : HandleCreate(ok)
  \/ \E r \in Requests : NoOtherRequest(r) /\ \E m \in Methods : ApiRequest(r, m)
  \/ \E r \in Requests : NoOtherRequest(r) /\ \E ok \in BOOLEAN : ApiFetchComputer(r, ok)
  \/ \E r \in Requests : NoOtherRequest(r) /\ \E ok \in BOOLEAN : ApiFetchToken(r, ok)
  \/ \E r \in Requests : NoOtherRequest(r) /\ \E ok \in BOOLEAN : ApiUpdateComputer(r, ok)
  \/ \E r \in Requests : NoOtherRequest(r) /\ \E ok \in BOOLEAN : ApiUpdateToken(r, ok)

SpecApiSeq == ApiInit /\ [][ApiSeqNext]_vars

\* ================================================================ claims

\* ---- C1 ----------------------------------------------------------------
\* C1: when createToken calls (or addDesk calls) run concurrently from
\* different admin pages, no two created tokens receive the same
\* token_number and no two created desks the same desk_number.
C1_DistinctNumbers ==
  /\ \A t, u \in TokenIds :
       TokenExists(t) /\ TokenExists(u) /\ t # u
         => tokens[t].token_number # tokens[u].token_number
  /\ \A d, e \in DeskIds :
       DeskExists(d) /\ DeskExists(e) /\ d # e
         => desks[d].desk_number # desks[e].desk_number

\* ---- C8 ----------------------------------------------------------------
\* C8: after any sequence of createToken, resetTokenCounter, addDesk,
\* deleteDesk and resetDesks, no two overlapping, every token carries a
\* token_number strictly greater than that of every token created before it
\* (ids are given in creation order) and no two existing tokens share one;
\* likewise for desk_number among the existing desks.
C8_StrictlyIncreasing ==
  /\ \A t, u \in TokenIds :
       TokenExists(t) /\ TokenExists(u) /\ t < u
         => tokens[t].token_number < tokens[u].token_number
  /\ \A d, e \in DeskIds :
       DeskExists(d) /\ DeskExists(e) /\ d < e
         => desks[d].desk_number < desks[e].desk_number

\* ---- C2 ----------------------------------------------------------------
\* the pass of page p has performed a store write (its token update)
PassWrote(p) == display[p].op = "pass" /\ display[p].pc # "updToken"

\* C2: when two performAutoAssignment passes of two display pages run
\* concurrently, both fired while the store held exactly one free active
\* desk and exactly one waiting token, exactly one of them performs the
\* assignment writes: never have both written.
C2_OnePassWrites ==
  \A p, q \in DisplayPages :
    p # q /\ display[p].op = "pass" /\ display[q].op = "pass"
          /\ display[p].one /\ display[q].one
      => ~(PassWrote(p) /\ PassWrote(q))

\* ---- C3 ----------------------------------------------------------------
\* C3: in every reachable store state, for every desk: status = occupied iff
\* assigned_token_id is non-null, and the token a desk references has that
\* desk's id as its assigned_desk_id.
C3_DeskTokenAgree ==
  \A d \in DeskIds :
    DeskExists(d) =>
      /\ desks[d].status = "occupied" <=> desks[d].assigned_token_id # NULL
      /\ desks[d].assigned_token_id # NULL =>
           /\ TokenExists(desks[d].assigned_token_id)
           /\ tokens[desks[d].assigned_token_id].assigned_desk_id = d

\* ---- C5 ----------------------------------------------------------------
\* the waiting token of the store that was created first (ids are serial)
EarliestWaiting(t) ==
  /\ tokens[t].status = "waiting"
  /\ \A u \in TokenIds : tokens[u].status = "waiting" => t <= u

\* page p's pass performs its token update in this step
PassAssigns(p) ==
  /\ display[p].op = "pass" /\ display[p].pc = "updToken"
  /\ display'[p].pc = "updDesk"

\* C5: every time a pass assigns a token while a free active desk exists
\* in the store, that token is the earliest created among the tokens whose
\* status in the store is waiting at that moment.
C5_FIFO ==
  [][\A p \in DisplayPages :
       (PassAssigns(p)
        /\ \E d \in DeskIds : DeskExists(d) /\ desks[d].is_active
                              /\ desks[d].status = "free")
         => EarliestWaiting(display[p].tok)]_vars

\* ---- C7 ----------------------------------------------------------------
\* the view of display page p is what fetchData would install now
DisplayFresh(p) ==
  /\ display[p].vdesks = ProcessedDesks(ActiveDesksData)
  /\ display[p].vwaiting = WaitingTokensData
  /\ display[p].venabled = auto_assign_enabled

\* the view of desk page p is what fetchDeskData would install now
DeskPageFresh(p) ==
  /\ deskPage[p].vdesk # NULL
  /\ DeskExists(deskPage[p].vdesk)
  /\ desks[deskPage[p].vdesk].desk_number = deskPage[p].deskNumber
  /\ deskPage[p].vtoken = desks[deskPage[p].vdesk].assigned_token_id

\* desk 1 (D1) free and active, tokens 1 (T1, older) and 2 (T2) waiting,
\* auto-assign enabled
ScenarioInit ==
  /\ Init
  /\ \A t \in TokenIds : TokenExists(t) <=> t \in {1, 2}
  /\ desks[1].status = "free" /\ desks[1].is_active
  /\ \A d \in DeskIds : DeskExists(d) <=> d = 1
  /\ auto_assign_enabled

\* one display page and one desk page opened at /desk/1; every round trip
\* succeeds, a handler starts on an up-to-date view and runs to its end
\* before the other page acts
ScenarioNext ==
  \/ deskPage[1].pc = "idle" /\ Poll(1)
  \/ deskPage[1].pc = "idle" /\ FetchDesks(1, TRUE)
  \/ deskPage[1].pc = "idle" /\ FetchTokens(1, TRUE)
  \/ deskPage[1].pc = "idle" /\ DisplayFresh(1) /\ PassStart(1)
  \/ deskPage[1].pc = "idle" /\ PassUpdateToken(1, TRUE)
  \/ deskPage[1].pc = "idle" /\ PassUpdateDesk(1, TRUE)
  \/ deskPage[1].pc = "idle" /\ DisplayFresh(1)
       /\ \E i \in 1..MaxDesks : DisplayCompleteToken(1, i, TRUE)
  \/ deskPage[1].pc = "idle" /\ DisplayCompleteDesk(1, TRUE)
  \/ display[1].pc = "idle" /\ OpenDeskPage(1, 1)
  \/ display[1].pc = "idle" /\ DeskFetchDesk(1, TRUE)
  \/ display[1].pc = "idle" /\ DeskFetchToken(1, TRUE)
  \/ display[1].pc = "idle" /\ DeskPageFresh(1) /\ DeskCompleteToken(1, TRUE)
  \/ display[1].pc = "idle" /\ DeskReadServed(1, TRUE)
  \/ display[1].pc = "idle" /\ DeskCompleteDesk(1, TRUE)

SpecScenario == ScenarioInit /\ [][ScenarioNext]_vars

\* C7: from D1 free, T1 and T2 waiting: a pass leaves D1 occupied with T1 and
\* T2 waiting; completing T1 (by the desk page or by the display page)
\* leaves D1 free with total_tokens_served one greater (1) and T1 completed;
\* a further pass then assigns T2 to D1.  Stated of the states in which no
\* handler is running.
C7_Scenario ==
  (display[1].pc = "idle" /\ deskPage[1].pc = "idle") =>
    /\ tokens[1].status = "waiting" =>
         tokens[2].status = "waiting" /\ desks[1].status = "free"
    /\ tokens[1].status = "assigned" =>
         /\ desks[1].status = "occupied" /\ desks[1].assigned_token_id = 1
         /\ tokens[1].assigned_desk_id = 1
         /\ tokens[2].status = "waiting"
    /\ tokens[1].status = "completed" /\ tokens[2].status = "waiting" =>
         /\ desks[1].status = "free" /\ desks[1].assigned_token_id = NULL
         /\ desks[1].total_tokens_served = 1
    /\ tokens[2].status = "assigned" =>
         /\ tokens[1].status = "completed"
         /\ desks[1].status = "occupied" /\ desks[1].assigned_token_id = 2
         /\ tokens[2].assigned_desk_id = 1
         /\ desks[1].total_tokens_served = 1

\* ---- C4 ----------------------------------------------------------------
\* C4: in every reachable store state, for every token: status = assigned
\* iff assigned_desk_id is non-null (so a completed or paid token has a null
\* assigned_desk_id).
C4_AssignedIffDesk ==
  \A t \in TokenIds :
    TokenExists(t) =>
      (tokens[t].status = "assigned" <=> tokens[t].assigned_desk_id # NULL)

\* C4, amended: for every token: assigned_desk_id is non-null iff status is
\* assigned, completed or paid; completeToken and markAsPaid leave the
\* assigned_desk_id of the token they move as it was.
C4_DeskIdKept ==
  \A t \in TokenIds :
    TokenExists(t) =>
      (tokens[t].status \in {"assigned", "completed", "paid"}
         <=> tokens[t].assigned_desk_id # NULL)

\* a token that went through completeToken and markAsPaid (retain version)
C4_Witness ==
  \E t \in TokenIds : tokens[t].status = "paid" /\ tokens[t].assigned_desk_id # NULL

\* ---- C6 ----------------------------------------------------------------
\* C6: markAsPaid invoked on a token that is already paid (retain version)
\* or already deleted (delete version) changes nothing in the store (or
\* fails), and changes no desk's total_tokens_served.
C6_SecondPaymentNoOp ==
  [][\A p \in FeesPages, t \in TokenIds :
       (tokens[t].status \in {"paid", "deleted"}
        /\ \E ok \in BOOLEAN : MarkAsPaid(p, t, ok))
         => (tokens' = tokens /\ desks' = desks)]_vars

PaysTokenOfDesk(p, t, d) ==
  /\ TokenExists(t) /\ tokens[t].assigned_desk_id = d /\ DeskExists(d)
  /\ MarkAsPaid(p, t, TRUE)

C11_PaidIsTerminal ==
  [][\A t \in TokenIds :
       tokens[t].status = "paid" => tokens'[t].status = "paid"]_vars


\* ---- C12 ---------------------------------------------------------------
\* C12: for every desk, total_tokens_served never decreases in any step, for
\* as long as the desk row exists.
C12_ServedMonotonic ==
  [][\A d \in DeskIds :
       DeskExists(d) /\ DeskExists(d)'
         => desks'[d].total_tokens_served >= desks[d].total_tokens_served]_vars


\* ---- C14 ---------------------------------------------------------------
\* C14: createToken with an empty or whitespace-only name, and addDesk with
\* an empty or whitespace-only operator name, report a validation error and
\* perform no store access: the handler does not go on to read or write the
\* counter, no row is inserted and the store is as it was.
C14_BlankNameRejected ==
  [][\A p \in AdminPages, nm \in Names :
       /\ CreateTokenRejected(p, nm) =>
            /\ store' = store
            /\ admin'[p].pc = "idle" /\ admin'[p].next = 0
            /\ admin'[p].alert = "enterTokenName"
       /\ AddDeskRejected(p, nm) =>
            /\ store' = store
            /\ admin'[p].pc = "idle" /\ admin'[p].next = 0
            /\ admin'[p].alert = "enterOperatorName"]_vars

\* both validation errors are on display
C14_Witness ==
  \E p, q \in AdminPages :
    admin[p].alert = "enterTokenName" /\ admin[q].alert = "enterOperatorName"


\* ---- C17 ---------------------------------------------------------------
\* two distinct tokens are assigned to desk d
DoubleAssigned(d) ==
  \E t, u \in TokenIds :
    /\ t # u
    /\ tokens[t].status = "assigned" /\ tokens[t].assigned_desk_id = d
    /\ tokens[u].status = "assigned" /\ tokens[u].assigned_desk_id = d

\* C17: the token update of a pass is applied whatever the store holds for
\* the desk: when another token is already assigned to the desk of the
\* pass (by a pass of another page, between its two writes or after them),
\* the update still goes through and two distinct tokens are assigned to the
\* same desk.
C17_SecondPassDoubleAssigns ==
  [][\A p \in DisplayPages :
       (/\ PassUpdateToken(p, TRUE)
        /\ TokenExists(display[p].tok)
        /\ \E u \in TokenIds : /\ u # display[p].tok
                               /\ tokens[u].status = "assigned"
                               /\ tokens[u].assigned_desk_id = display[p].desk)
         => DoubleAssigned(display[p].desk)']_vars

\* two passes of different pages have assigned two distinct tokens to one desk
C17_Witness ==
  \E p, q \in DisplayPages :
    /\ p # q
    /\ display[p].op = "pass" /\ display[q].op = "pass"
    /\ display[p].desk = display[q].desk /\ display[p].tok # display[q].tok
    /\ tokens[display[p].tok].status = "assigned"
    /\ tokens[display[p].tok].assigned_desk_id = display[p].desk
    /\ tokens[display[q].tok].status = "assigned"
    /\ tokens[display[q].tok].assigned_desk_id = display[p].desk

\* ---- C18 ---------------------------------------------------------------
\* the waiting token of the store with the least token_number
FirstWaitingInStore(t) ==
  /\ t \in TokenIds /\ tokens[t].status = "waiting"
  /\ \A u \in TokenIds :
       tokens[u].status = "waiting" => tokens[t].token_number <= tokens[u].token_number

\* the free active desk of the store with the least desk_number
FirstFreeActiveInStore(d) ==
  /\ d \in DeskIds /\ DeskExists(d) /\ desks[d].is_active /\ desks[d].status = "free"
  /\ \A e \in DeskIds :
       DeskExists(e) /\ desks[e].is_active /\ desks[e].status = "free"
         => desks[d].desk_number <= desks[e].desk_number

\* C18: a pass started on a view equal to the store picks the first waiting
\* token and the first free active desk in desk_number order (never a desk
\* in maintenance or with is_active false); its token update changes
\* exactly that token row (assigned, assigned_desk_id the desk, assigned_at
\* now) and its desk update exactly that desk row (occupied,
\* assigned_token_id the token, assigned_at now), after which the two rows
\* reference each other.
C18_PassAssignsFirstToFirst ==
  [][\A p \in DisplayPages :
       /\ (DisplayFresh(p) /\ PassStart(p)) =>
            /\ FirstWaitingInStore(display'[p].tok)
            /\ FirstFreeActiveInStore(display'[p].desk)
       /\ PassUpdateToken(p, TRUE) =>
            /\ tokens' = [tokens EXCEPT ![display[p].tok] =
                            [@ EXCEPT !.status = "assigned",
                                      !.assigned_desk_id = display[p].desk,
                                      !.assigned_at = now]]
            /\ desks' = desks
       /\ PassUpdateDesk(p, TRUE) =>
            /\ desks' = [desks EXCEPT ![display[p].desk] =
                           [@ EXCEPT !.status = "occupied",
                                     !.assigned_token_id = display[p].tok,
                                     !.assigned_at = now]]
            /\ tokens' = tokens
            /\ tokens'[display[p].tok].status = "assigned"
            /\ tokens'[display[p].tok].assigned_desk_id = display[p].desk]_vars

\* a pass has run to success while a second token waited and a desk in
\* maintenance or inactive was passed over
C18_Witness ==
  /\ display[1].op = "pass" /\ display[1].pc = "fetchDesks"
  /\ tokens[display[1].tok].status = "assigned"
  /\ desks[display[1].desk].assigned_token_id = display[1].tok
  /\ \E u \in TokenIds : tokens[u].status = "waiting"
  /\ \E e \in DeskIds : /\ DeskExists(e)
                        /\ desks[e].desk_number < desks[display[1].desk].desk_number
                        /\ (desks[e].status = "maintenance" \/ ~desks[e].is_active)

\* ---- C19 ---------------------------------------------------------------
\* the guards of performAutoAssignment hold on the view of page p
ViewAllowsPass(p) ==
  /\ display[p].venabled
  /\ Len(display[p].vwaiting) # 0
  /\ FreeDeskIndex(display[p].vdesks) # 0

\* C19: a pass begins, and writes to the store, only from a view in which
\* auto_assign_enabled is true, the waiting list is not empty and some desk
\* is free and active; no token moves from waiting to assigned except
\* through a pass of a page whose view has the enable flag on.
C19_NoWriteWithoutGuards ==
  [][/\ \A p \in DisplayPages :
          (\/ PassStart(p)
           \/ \E ok \in BOOLEAN : PassUpdateToken(p, ok)
           \/ \E ok \in BOOLEAN : PassUpdateDesk(p, ok))
            => ViewAllowsPass(p)
     /\ \A t \in TokenIds :
          (tokens[t].status = "waiting" /\ tokens'[t].status = "assigned")
            => \E p \in DisplayPages : /\ display[p].op = "pass"
                                       /\ display[p].tok = t
                                       /\ display[p].venabled]_vars

\* a page idle on an up-to-date view with the flag off, while the store
\* holds a waiting token and a free active desk
C19_Witness ==
  \E p \in DisplayPages :
    /\ display[p].pc = "idle" /\ DisplayFresh(p)
    /\ ~display[p].venabled
    /\ Len(display[p].vwaiting) # 0
    /\ FreeDeskIndex(display[p].vdesks) # 0

\* ---- C20 ---------------------------------------------------------------
\* C20: a desk-page completeToken on a desk occupied by token T (the page's
\* view up to date) changes T's status from assigned to completed and
\* nothing else in the tokens table (assigned_desk_id stays); its desk update
\* sets the desk free with assigned_token_id and assigned_at null and
\* total_tokens_served one greater, and changes no other desk and no token.
C20_DeskPageCompletion ==
  [][\A p \in DeskPages :
       /\ (/\ DeskPageFresh(p) /\ deskPage[p].vtoken # NULL
           /\ tokens[deskPage[p].vtoken].status = "assigned"
           /\ DeskCompleteToken(p, TRUE)) =>
            /\ tokens' = [tokens EXCEPT ![deskPage[p].vtoken].status = "completed"]
            /\ tokens'[deskPage[p].vtoken].assigned_desk_id
                 = tokens[deskPage[p].vtoken].assigned_desk_id
            /\ desks' = desks
       /\ DeskCompleteDesk(p, TRUE) =>
            /\ desks' = [desks EXCEPT ![deskPage[p].vdesk] =
                           [@ EXCEPT !.status = "free",
                                     !.assigned_token_id = NULL,
                                     !.assigned_at = NULL,
                                     !.total_tokens_served = @ + 1]]
            /\ tokens' = tokens]_vars

\* the desk page has just completed the token of its desk
C20_Witness ==
  /\ deskPage[1].pc = "fetchDesk" /\ deskPage[1].vtoken # NULL
  /\ tokens[deskPage[1].vtoken].status = "completed"
  /\ tokens[deskPage[1].vtoken].assigned_desk_id = deskPage[1].vdesk
  /\ desks[deskPage[1].vdesk].status = "free"
  /\ desks[deskPage[1].vdesk].assigned_token_id = NULL
  /\ desks[deskPage[1].vdesk].total_tokens_served = 1


\* ---- C15 ---------------------------------------------------------------
\* C15: a POST that is answered 200 selected the free computer with the
\* lowest id and the active token with the lowest id; its computer update
\* changes exactly that computer row (status false, person_assigned the
\* token's id), its token update exactly that token row (status false), and
\* when it answers 200 the computer has status false and person_assigned
\* the token's id and the token has status false.
C15_AssignsLowestToLowest ==
  [][\A r \in Requests :
       /\ (ApiFetchComputer(r, TRUE) /\ FreeComputers # {}) =>
            /\ request'[r].computer \in FreeComputers
            /\ \A c \in FreeComputers : request'[r].computer <= c
       /\ (ApiFetchToken(r, TRUE) /\ ActivePersons # {}) =>
            /\ request'[r].token \in ActivePersons
            /\ \A t \in ActivePersons : request'[r].token <= t
       /\ ApiUpdateComputer(r, TRUE) =>
            /\ computers' = [computers EXCEPT ![request[r].computer] =
                               [@ EXCEPT !.status = FALSE,
                                         !.person_assigned = request[r].token]]
            /\ token' = token
       /\ ApiUpdateToken(r, TRUE) =>
            /\ token' = [token EXCEPT ![request[r].token].status = FALSE]
            /\ computers' = computers
            /\ request'[r].status = 200
            /\ ~computers'[request[r].computer].status
            /\ computers'[request[r].computer].person_assigned = request[r].token
            /\ ~token'[request[r].token].status
       /\ request'[r].status = 200 => request'[r].wrote = {"computers", "token"}]_vars

\* a request answered 200 having chosen among two free computers and two
\* active tokens: the second of each is left as it was
C15_Witness ==
  \E r \in Requests :
    /\ request[r].status = 200
    /\ request[r].computer = 1 /\ request[r].token = 1
    /\ computers[1].person_assigned = 1 /\ ~computers[1].status /\ ~token[1].status
    /\ computers[2].exists /\ computers[2].status
    /\ token[2].exists /\ token[2].status

\* ---- C16 ---------------------------------------------------------------
\* C16: a request whose method is not POST is answered 405 without going to
\* the store; a POST is answered 404 when no computer is free or no token is
\* active; a request answered 405 or 404 has modified no computer and no
\* token row.
C16_NoWriteOn405And404 ==
  [][\A r \in Requests :
       /\ \A m \in Methods :
            (m # "POST" /\ ApiRequest(r, m)) =>
              /\ request'[r].status = 405 /\ request'[r].pc = "done"
              /\ computers' = computers /\ token' = token
       /\ (ApiFetchComputer(r, TRUE) /\ FreeComputers = {}) =>
            /\ request'[r].status = 404
            /\ computers' = computers /\ token' = token
       /\ (ApiFetchToken(r, TRUE) /\ ActivePersons = {}) =>
            /\ request'[r].status = 404
            /\ computers' = computers /\ token' = token
       /\ request'[r].status \in {404, 405} => request'[r].wrote = {}]_vars

\* one request answered 405 and another answered 404 for want of a token
C16_Witness ==
  \E r, q \in Requests :
    /\ request[r].status = 405
    /\ request[q].status = 404 /\ request[q].step = "fetchToken"


C21_EachCompletionCountsOne ==
  [][\A p \in DeskPages :
       (DeskCompleteDesk(p, TRUE) /\ DeskExists(deskPage[p].vdesk))
         => desks'[deskPage[p].vdesk].total_tokens_served
              = desks[deskPage[p].vdesk].total_tokens_served + 1]_vars

\* ---- C22 ---------------------------------------------------------------
\* in the store, desk d references token t and t is assigned
HoldsAssigned(d, t) ==
  /\ d \in DeskIds /\ t \in TokenIds
  /\ DeskExists(d) /\ desks[d].assigned_token_id = t
  /\ tokens[t].status = "assigned"

\* C22: completeToken (desk page and display page) marks a token completed
\* and frees a desk only when, in the store at that moment, the desk
\* references the token being completed (and, for the token update, the
\* token is assigned): a completion from a stale view never clears a desk's
\* assignment to another token.
C22_CompletionMatchesStore ==
  [][/\ \A p \in DisplayPages, i \in 1..MaxDesks :
          DisplayCompleteToken(p, i, TRUE)
            => HoldsAssigned(display[p].vdesks[i].id,
                             display[p].vdesks[i].assigned_token)
     /\ \A p \in DisplayPages :
          DisplayCompleteDesk(p, TRUE)
            => desks[display[p].desk].assigned_token_id = display[p].tok
     /\ \A p \in DeskPages :
          DeskCompleteToken(p, TRUE)
            => HoldsAssigned(deskPage[p].vdesk, deskPage[p].vtoken)
     /\ \A p \in DeskPages :
          DeskCompleteDesk(p, TRUE)
            => desks[deskPage[p].vdesk].assigned_token_id = deskPage[p].vtoken]_vars

\* ---- C25 ---------------------------------------------------------------
\* C25: in every reachable store state no two distinct desks have the same
\* non-null assigned_token_id.
C25_NoTokenOnTwoDesks ==
  \A d, e \in DeskIds :
    (d # e /\ DeskExists(d) /\ DeskExists(e) /\ desks[d].assigned_token_id # NULL)
      => desks[d].assigned_token_id # desks[e].assigned_token_id

\* ---- C26 ---------------------------------------------------------------
\* C26: once a token's status in the store is completed, no step of an
\* auto-assign pass sets it back to assigned or gives it another
\* assigned_desk_id.
C26_CompletedNotReassigned ==
  [][\A p \in DisplayPages, t \in TokenIds :
       (tokens[t].status = "completed" /\ \E ok \in BOOLEAN : PassUpdateToken(p, ok))
         => /\ tokens'[t].status = "completed"
            /\ tokens'[t].assigned_desk_id = tokens[t].assigned_desk_id]_vars

\* ---- C29 ---------------------------------------------------------------
\* C29: under any interleaving of concurrent POST requests no two computers
\* have the same person_assigned, and no two requests answered 200 were
\* given the same token or the same computer (so the 200 responses never
\* outnumber the tokens that were active or the computers that were free).
C29_OneTokenOneComputer ==
  /\ \A c, e \in ComputerIds :
       (c # e /\ computers[c].exists /\ computers[e].exists
        /\ computers[c].person_assigned # NULL)
         => computers[c].person_assigned # computers[e].person_assigned
  /\ \A r, q \in Requests :
       (r # q /\ request[r].status = 200 /\ request[q].status = 200)
         => /\ request[r].token # request[q].token
            /\ request[r].computer # request[q].computer

\* ---- C30 ---------------------------------------------------------------
\* C30: a request answered with an error (any status other than 200,
\* including 500 at step updateToken) has modified neither table; a request
\* answered 200 has updated both.
C30_ErrorMeansNoWrite ==
  \A r \in Requests :
    request[r].pc = "done" =>
      /\ request[r].status # 200 => request[r].wrote = {}
      /\ request[r].status = 200 => request[r].wrote = {"computers", "token"}


\* ---- C23 ---------------------------------------------------------------
\* the token rows carry exactly the numbers 1..n, one row each
TokenNumbersAre(n) ==
  /\ Cardinality({t \in TokenIds : TokenExists(t)}) = n
  /\ {tokens[t].token_number : t \in {u \in TokenIds : TokenExists(u)}} = 1..n

DeskNumbersAre(n) ==
  /\ Cardinality({d \in DeskIds : DeskExists(d)}) = n
  /\ {desks[d].desk_number : d \in {e \in DeskIds : DeskExists(e)}} = 1..n

\* C23: a counter allocation that runs alone and succeeds reads the counter
\* c, writes c + 1 and inserts exactly one row numbered c + 1: after the
\* read the page holds c + 1, after the update the counter is c + 1 and the
\* rows still carry 1..c, and after k allocations from counter 0 the rows
\* carry exactly 1..k and the counter is k (tokens and desks alike).
C23_AloneAllocationsCount ==
  /\ \A p \in AdminPages :
       /\ admin[p].pc = "tUpdate"
            => admin[p].next = token_counter + 1 /\ TokenNumbersAre(token_counter)
       /\ admin[p].pc = "tInsert"
            => admin[p].next = token_counter /\ TokenNumbersAre(token_counter - 1)
       /\ admin[p].pc = "dUpdate"
            => admin[p].next = desk_counter + 1 /\ DeskNumbersAre(desk_counter)
       /\ admin[p].pc = "dInsert"
            => admin[p].next = desk_counter /\ DeskNumbersAre(desk_counter - 1)
  /\ (\A p \in AdminPages : admin[p].pc \notin {"tUpdate", "tInsert"})
       => TokenNumbersAre(token_counter)
  /\ (\A p \in AdminPages : admin[p].pc \notin {"dUpdate", "dInsert"})
       => DeskNumbersAre(desk_counter)

\* both admin pages have created a token, starting from an empty store
C23_Witness ==
  /\ \A p \in AdminPages : admin[p].pc = "idle" /\ admin[p].alert = "success"
  /\ desk_counter = 0 /\ \A d \in DeskIds : ~DeskExists(d)
  /\ token_counter = MaxTokens
  /\ \A t \in TokenIds : TokenExists(t) /\ tokens[t].token_number = t


\* ---- C24 ---------------------------------------------------------------
\* C24: when two fetchData calls of one page are in flight, the response of
\* the call issued earlier, arriving after the later call has installed its
\* view, is installed all the same (the view becomes the data the earlier
\* call read), and a following performAutoAssignment takes its token and
\* desk from that older view.
C24_OlderResponseOverwrites ==
  [][\A p \in DisplayPages :
       /\ (Poll2FetchTokens(p, TRUE) /\ display[p].poll2.overtaken)
            => /\ display'[p].vdesks = ProcessedDesks(display[p].poll2.got)
               /\ display'[p].vstale
       /\ (FetchTokens(p, TRUE) /\ display[p].overtaken)
            => /\ display'[p].vdesks = ProcessedDesks(display[p].got)
               /\ display'[p].vstale
       /\ (PassStart(p) /\ display[p].vstale)
            => /\ display'[p].tok = display[p].vwaiting[1]
               /\ display'[p].desk
                    = display[p].vdesks[FreeDeskIndex(display[p].vdesks)].id]_vars

\* the view was installed by a call that had read the desks before the call
\* that installed the previous view was issued; the pass running from it has
\* assigned its token to a desk that the store has occupied with another
\* token
C24_Witness ==
  \E p \in DisplayPages :
    /\ display[p].op = "pass" /\ display[p].pc = "updDesk"
    /\ display[p].onOlder
    /\ desks[display[p].desk].status = "occupied"
    /\ desks[display[p].desk].assigned_token_id \notin {NULL, display[p].tok}
    /\ tokens[display[p].tok].status = "assigned"


C28_AssignedEventuallyCompleted ==
  \A t \in TokenIds :
    (tokens[t].status = "assigned") ~> (tokens[t].status = "completed")


====
